---- MODULE Spec2Model ----
(***************************************************************************)
(* A model of examples/linny/flow.py: the `linear_regression_flow` prefect *)
(* flow and its four tasks (setup, start_logging, validate-configuration,  *)
(* end-logging).  The flow is a sequential program; each task is a         *)
(* sequence of statements, and an exception raised by a statement leaves   *)
(* the task and the flow (the flow has no try/except).                     *)
(***************************************************************************)
EXTENDS Naturals, Sequences, FiniteSets

VARIABLES
    run_request,     \* the flow parameter (line 162)
    data,            \* the content of flow.json (line 38)
    dtypes,          \* the content of dtypes.json (line 45)
    pc,              \* index in FlowOrder of the flow's next task call
    flowState,       \* "Running", "Completed" or "Failed" (the flow-run state)
    task,            \* task name -> "pending" | "running" | "completed" | "failed"
    step,            \* index in Body(t) of the running task's next statement, 0 if none
    calls,           \* task name -> number of times the task was started
    Flow,            \* the config.Handler of the run (lines 36, 168)
    Logging,         \* the logging.Handler of the run (lines 84, 173)
    logFile,         \* the text of the log file, a sequence of blocks
    Workflow,        \* validate_configuration's local (line 111), 0 = unbound
    slept,           \* seconds spent in time.sleep
    closeCalls,      \* number of calls of Logging.close()
    artifacts,       \* the markdown artifacts created, in order
    validateResult,  \* outcome of loading and validating flow.json
    fault            \* the exception that ended the run, "None" if none

vars == <<run_request, data, dtypes, pc, flowState, task, step, calls, Flow,
          Logging, logFile, Workflow, slept, closeCalls, artifacts,
          validateResult, fault>>

----------------------------------------------------------------------------
(* Bounds and program constants *)

\* workflow payloads are {alpha: 1} .. {alpha: MaxWorkflow}
MaxWorkflow == 2

\* time.sleep(20)
SleepSeconds == 20

----------------------------------------------------------------------------
(* Inputs *)

Types == {"dict", "str", "int"}

\* the keys start_logging reads from flow.json, as nested-key paths
DocPaths == {"linear-regression", "linear-regression.description"}

WellFormedDoc(d) ==
    "linear-regression.description" \in DOMAIN d
        => ("linear-regression" \in DOMAIN d /\ d["linear-regression"] = "dict")

\* a document maps each key path it holds to the type of the value there
Docs == UNION {{d \in [S -> Types] : WellFormedDoc(d)} : S \in SUBSET DocPaths}

\* a request: not a mapping at all, or a mapping holding some of the keys
\* the tasks read (workflow = 0: no 'workflow' key)
RunRequests ==
    {[kind |-> "scalar", dir |-> "absent", runInformation |-> FALSE, workflow |-> 0]}
    \cup [kind : {"mapping"},
          dir : {"absent", "scalar", "noOutputs", "ok"},
          runInformation : BOOLEAN,
          workflow : 0..MaxWorkflow]

NoRequest == [kind |-> "unset", dir |-> "absent", runInformation |-> FALSE, workflow |-> 0]

----------------------------------------------------------------------------
(* The flow and the tasks as programs *)

Tasks == {"setup", "start_logging", "validate-configuration", "end-logging"}

\* variant: validate_configuration is called before start_logging
FlowOrderSwapped == <<"setup", "validate-configuration", "start_logging", "end-logging">>

\* the calls of linear_regression_flow, in program order
FlowOrder == <<"setup", "start_logging", "validate-configuration", "end-logging">>

SetupSteps == <<"validate", "inject">>

StartLoggingSteps == <<"construct">>

\* variant: the wait comes before the fetch of run_request.workflow
ValidateConfigurationStepsSleepFirst ==
    <<"sleep", "fetch", "write_header", "write", "write_workflow">>

ValidateConfigurationSteps ==
    <<"fetch", "sleep", "write_header", "write", "write_workflow">>

\* variant: the log file is read and published before the logger is closed
EndLoggingStepsPublishFirst == <<"publish", "close">>

EndLoggingSteps == <<"close", "publish">>

Body(t) ==
    CASE t = "setup" -> SetupSteps
      [] t = "start_logging" -> StartLoggingSteps
      [] t = "validate-configuration" -> ValidateConfigurationSteps
      [] OTHER -> EndLoggingSteps

\* the statement task t is at
At(t, s) ==
    /\ flowState = "Running"
    /\ task[t] = "running"
    /\ step \in 1..Len(Body(t))
    /\ Body(t)[step] = s

----------------------------------------------------------------------------
(* The collaborators: pytensils config / logging, prefect artifacts *)

\* config.Handler.validate: every key has the declared type, else ValidationError
Validate(d, dt) ==
    IF DOMAIN d = DOMAIN dt /\ \A p \in DOMAIN d : d[p] = dt[p]
    THEN "true"
    ELSE "ValidationError"

Block(kind, text, value) == [kind |-> kind, text |-> text, value |-> value]

\* what logging.Handler(...) writes on construction
OpenBlock == Block("open", "description", 0)

\* Logging.write_header(header=...)
WriteHeader(file, header) == Append(file, Block("header", header, 0))

\* Logging.write(content=<str>)
Write(file, content) == Append(file, Block("content", content, 0))

\* Logging.write(content=<mapping>): the mapping, dumped
WriteMapping(file, w) == Append(file, Block("mapping", "alpha", w))

\* Logging.close() writes the run-time summary
Close(file) == Append(file, Block("summary", "summary", 0))

----------------------------------------------------------------------------
Init ==
    /\ run_request \in RunRequests
    /\ data \in Docs
    /\ dtypes \in Docs
    /\ pc = 1
    /\ flowState = "Running"
    /\ task = [t \in Tasks |-> "pending"]
    /\ step = 0
    /\ calls = [t \in Tasks |-> 0]
    /\ Flow = [state |-> "unset", data |-> <<>>, run_request |-> NoRequest]
    /\ Logging = [opened |-> FALSE, closed |-> FALSE]
    /\ logFile = <<>>
    /\ Workflow = 0
    /\ slept = 0
    /\ closeCalls = 0
    /\ artifacts = <<>>
    /\ validateResult = "pending"
    /\ fault = "None"

----------------------------------------------------------------------------
(* Control *)

\* the flow calls its next task: the task starts
Submit(t) ==
    /\ flowState = "Running"
    /\ pc \in 1..Len(FlowOrder)
    /\ FlowOrder[pc] = t
    /\ task[t] = "pending"
    /\ task' = [task EXCEPT ![t] = "running"]
    /\ calls' = [calls EXCEPT ![t] = @ + 1]
    /\ step' = 1
    /\ UNCHANGED <<run_request, data, dtypes, pc, flowState, Flow, Logging,
                   logFile, Workflow, slept, closeCalls, artifacts,
                   validateResult, fault>>

\* task t returns: the flow goes on to its next call, or returns
Return(t) ==
    /\ task' = [task EXCEPT ![t] = "completed"]
    /\ step' = 0
    /\ pc' = pc + 1
    /\ flowState' = IF pc = Len(FlowOrder) THEN "Completed" ELSE "Running"
    /\ fault' = fault

\* the statement of task t is done: on to the next one, or return
Advance(t) ==
    IF step = Len(Body(t))
    THEN Return(t)
    ELSE /\ step' = step + 1
         /\ UNCHANGED <<task, pc, flowState, fault>>

\* variant: the flow runs under Logging.close_on_exception (lines 184-191)
RaiseAndClose(t, err) ==
    /\ task' = [task EXCEPT ![t] = "failed"]
    /\ step' = 0
    /\ flowState' = "Failed"
    /\ fault' = err
    /\ pc' = pc
    /\ IF Logging.opened
       THEN /\ Logging' = [Logging EXCEPT !.closed = TRUE]
            /\ logFile' = Close(logFile)
            /\ closeCalls' = closeCalls + 1
       ELSE UNCHANGED <<logFile, Logging, closeCalls>>

\* variant: a failed task is run once more
RaiseAndRetry(t, err) ==
    /\ step' = 0
    /\ IF calls[t] < 2
       THEN /\ task' = [task EXCEPT ![t] = "pending"]
            /\ UNCHANGED <<flowState, fault>>
       ELSE /\ task' = [task EXCEPT ![t] = "failed"]
            /\ flowState' = "Failed"
            /\ fault' = err
    /\ UNCHANGED <<pc, logFile, Logging, closeCalls>>

\* a statement of task t raises err: nothing in the task or the flow catches it
Raise(t, err) ==
    /\ task' = [task EXCEPT ![t] = "failed"]
    /\ step' = 0
    /\ flowState' = "Failed"
    /\ fault' = err
    /\ UNCHANGED <<pc, logFile, Logging, closeCalls>>

----------------------------------------------------------------------------
(* setup_flow_run *)

\* variant: the payload is not stored
InjectNothing(F, rr) == F

\* Flow.data['run_request'] = run_request
Inject(F, rr) == [F EXCEPT !.run_request = rr]

\* variant: the outcome of validate() is ignored (a ValidationError is swallowed)
setup_validate_unchecked ==
    /\ At("setup", "validate")
    /\ validateResult' = Validate(data, dtypes)
    /\ Flow' = [state |-> "Handler", data |-> data, run_request |-> NoRequest]
    /\ Advance("setup")
    /\ UNCHANGED <<run_request, data, dtypes, calls, Logging, logFile, Workflow,
                   slept, closeCalls, artifacts>>

\* Flow = config.Handler(flow.json); if Flow.validate(dtypes=config.Handler(dtypes.json).to_dict()):
setup_validate ==
    /\ At("setup", "validate")
    /\ \E readable \in BOOLEAN :
        IF ~readable
        THEN /\ validateResult' = "OSError"
             /\ Flow' = Flow
             /\ Raise("setup", "OSError")
        ELSE LET r == Validate(data, dtypes)
                 F == [state |-> "Handler", data |-> data, run_request |-> NoRequest]
             IN  /\ validateResult' = r
                 /\ CASE r = "true" ->
                           /\ Flow' = F
                           /\ Advance("setup")
                           /\ UNCHANGED <<logFile, Logging, closeCalls>>
                      [] r = "ValidationError" ->
                           /\ Flow' = F
                           /\ Raise("setup", "ValidationError")
                      [] OTHER ->
                           \* a falsy result: the function falls off its end
                           /\ Flow' = [F EXCEPT !.state = "None"]
                           /\ Return("setup")
                           /\ UNCHANGED <<logFile, Logging, closeCalls>>
    /\ UNCHANGED <<run_request, data, dtypes, calls, Workflow, slept, artifacts>>

\* Flow.data['run_request'] = run_request; return Flow
setup_inject ==
    /\ At("setup", "inject")
    /\ Flow' = Inject(Flow, run_request)
    /\ Advance("setup")
    /\ UNCHANGED <<run_request, data, dtypes, calls, Logging, logFile, Workflow,
                   slept, closeCalls, artifacts, validateResult>>

----------------------------------------------------------------------------
(* start_logging *)

\* the exception the look-ups of lines 85-87 raise on F, "None" if none
StartLoggingFault(F) ==
    CASE F.state # "Handler" -> "AttributeError"
      [] F.run_request.kind = "unset" -> "KeyError"
      [] F.run_request.kind = "scalar" -> "TypeError"
      [] F.run_request.dir \in {"absent", "noOutputs"} -> "KeyError"
      [] F.run_request.dir = "scalar" -> "TypeError"
      [] "linear-regression" \notin DOMAIN F.data -> "KeyError"
      [] F.data["linear-regression"] # "dict" -> "TypeError"
      [] "linear-regression.description" \notin DOMAIN F.data -> "KeyError"
      [] ~F.run_request.runInformation -> "KeyError"
      [] OTHER -> "None"

\* return logging.Handler(path=..., description=..., metadata=..., debug_console=True)
start_logging_construct ==
    /\ At("start_logging", "construct")
    /\ LET e == StartLoggingFault(Flow)
       IN  IF e # "None"
           THEN Raise("start_logging", e)
           ELSE \E ok \in BOOLEAN :
                  IF ok
                  THEN /\ Logging' = [opened |-> TRUE, closed |-> FALSE]
                       /\ logFile' = <<OpenBlock>>
                       /\ closeCalls' = closeCalls
                       /\ Advance("start_logging")
                  ELSE Raise("start_logging", "OSError")
    /\ UNCHANGED <<run_request, data, dtypes, calls, Flow, Workflow, slept,
                   artifacts, validateResult>>

----------------------------------------------------------------------------
(* validate_configuration *)

\* the exception Flow.data['run_request']['workflow'] raises on F, "None" if none
FetchWorkflowFault(F) ==
    CASE F.state # "Handler" -> "AttributeError"
      [] F.run_request.kind = "unset" -> "KeyError"
      [] F.run_request.kind = "scalar" -> "TypeError"
      [] F.run_request.workflow = 0 -> "KeyError"
      [] OTHER -> "None"

\* variant: Workflow = Flow.data['run_request'].pop('workflow')
validate_configuration_fetch_pop ==
    /\ At("validate-configuration", "fetch")
    /\ LET e == FetchWorkflowFault(Flow)
       IN  IF e # "None"
           THEN /\ Raise("validate-configuration", e)
                /\ UNCHANGED <<Workflow, Flow>>
           ELSE /\ Workflow' = Flow.run_request.workflow
                /\ Flow' = [Flow EXCEPT !.run_request.workflow = 0]
                /\ Advance("validate-configuration")
                /\ UNCHANGED <<logFile, Logging, closeCalls>>
    /\ UNCHANGED <<run_request, data, dtypes, calls, slept, artifacts,
                   validateResult>>

\* Workflow = Flow.data['run_request']['workflow']
validate_configuration_fetch ==
    /\ At("validate-configuration", "fetch")
    /\ LET e == FetchWorkflowFault(Flow)
       IN  IF e # "None"
           THEN /\ Raise("validate-configuration", e)
                /\ Workflow' = Workflow
           ELSE /\ Workflow' = Flow.run_request.workflow
                /\ Advance("validate-configuration")
                /\ UNCHANGED <<logFile, Logging, closeCalls>>
    /\ UNCHANGED <<run_request, data, dtypes, calls, Flow, slept, artifacts,
                   validateResult>>

\* time.sleep(20)
validate_configuration_sleep ==
    /\ At("validate-configuration", "sleep")
    /\ slept' = slept + SleepSeconds
    /\ Advance("validate-configuration")
    /\ UNCHANGED <<run_request, data, dtypes, calls, Flow, Logging, logFile,
                   Workflow, closeCalls, artifacts, validateResult>>

\* a statement of validate_configuration that writes `file` as the new log text
LogStatement(s, file) ==
    /\ At("validate-configuration", s)
    /\ \E ok \in BOOLEAN :
         IF ok
         THEN /\ logFile' = file
              /\ UNCHANGED <<Logging, closeCalls>>
              /\ Advance("validate-configuration")
         ELSE Raise("validate-configuration", "OSError")
    /\ UNCHANGED <<run_request, data, dtypes, calls, Flow, Workflow, slept,
                   artifacts, validateResult>>

\* Logging.write_header(header='Workflow validation')
validate_configuration_write_header ==
    LogStatement("write_header", WriteHeader(logFile, "Workflow validation"))

\* Logging.write(content="The workflow configuration validation completed successfully.")
validate_configuration_write ==
    LogStatement("write",
        Write(logFile, "The workflow configuration validation completed successfully."))

\* Logging.write(content=Workflow); return Workflow
validate_configuration_write_workflow ==
    LogStatement("write_workflow", WriteMapping(logFile, Workflow))

----------------------------------------------------------------------------
(* end_logging *)

\* Logging.close()
end_logging_close ==
    /\ At("end-logging", "close")
    /\ closeCalls' = closeCalls + 1
    /\ Logging' = [Logging EXCEPT !.closed = TRUE]
    /\ logFile' = Close(logFile)
    /\ Advance("end-logging")
    /\ UNCHANGED <<run_request, data, dtypes, calls, Flow, Workflow, slept,
                   artifacts, validateResult>>

\* create_markdown_artifact(markdown=content.read(), description=...)
Artifact(file) ==
    [markdown |-> file, description |-> "The user-log generated by the flow-run."]

\* variant: the logger is closed again once the artifact is created
end_logging_publish_and_close ==
    /\ At("end-logging", "publish")
    /\ artifacts' = Append(artifacts, Artifact(logFile))
    /\ logFile' = Close(logFile)
    /\ closeCalls' = closeCalls + 1
    /\ Logging' = [Logging EXCEPT !.closed = TRUE]
    /\ Advance("end-logging")
    /\ UNCHANGED <<run_request, data, dtypes, calls, Flow, Workflow, slept,
                   validateResult>>

\* with open(os.path.join(Logging.path, Logging.file_name), 'r') as content: create_markdown_artifact(...)
end_logging_publish ==
    /\ At("end-logging", "publish")
    /\ \E ok \in BOOLEAN :
         IF ok
         THEN /\ artifacts' = Append(artifacts, Artifact(logFile))
              /\ Advance("end-logging")
              /\ UNCHANGED <<logFile, Logging, closeCalls>>
         ELSE /\ artifacts' = artifacts
              /\ Raise("end-logging", "OSError")
    /\ UNCHANGED <<run_request, data, dtypes, calls, Flow, Workflow, slept,
                   validateResult>>

----------------------------------------------------------------------------
Next ==
    \/ \E t \in Tasks : Submit(t)
    \/ setup_validate
    \/ setup_inject
    \/ start_logging_construct
    \/ validate_configuration_fetch
    \/ validate_configuration_sleep
    \/ validate_configuration_write_header
    \/ validate_configuration_write
    \/ validate_configuration_write_workflow
    \/ end_logging_close
    \/ end_logging_publish

Spec == Init /\ [][Next]_vars

\* the flow is one sequential program: it takes its next step while it has one
FairSpec == Spec /\ WF_vars(Next)

----------------------------------------------------------------------------
(* Properties *)

\* the order of the tasks and the run states, as the specification gives them
SpecOrder == <<"setup", "start_logging", "validate-configuration", "end-logging">>

SpecStates == <<"created", "configured", "logging-started", "validated", "completed">>

LaterTasks == {"start_logging", "validate-configuration", "end-logging"}

Ended == flowState \in {"Completed", "Failed"}

NumCompleted == Cardinality({t \in Tasks : task[t] = "completed"})

RunState == IF flowState = "Failed" THEN "failed" ELSE SpecStates[NumCompleted + 1]

Summaries(file) == {i \in 1..Len(file) : file[i].kind = "summary"}

\* the log of a run in which every statement succeeded
FullLog ==
    << Block("open", "description", 0),
       Block("header", "Workflow validation", 0),
       Block("content", "The workflow configuration validation completed successfully.", 0),
       Block("mapping", "alpha", run_request.workflow),
       Block("summary", "summary", 0) >>

\* C1: every run that opened a logger ends, successfully or by exception,
\* with the logger closed and exactly one artifact created.
C1_CloseOnEveryExitPath ==
    (Ended /\ Logging.opened) => (Logging.closed /\ Len(artifacts) = 1)

\* C2: the later tasks start, the logger opens, log lines are written and an
\* artifact is published only in runs whose validate() returned true; when
\* validation does not succeed, setup fails and none of these happens.
C2_ValidationGatesRun ==
    /\ ( \/ \E t \in LaterTasks : task[t] # "pending" \/ calls[t] # 0
         \/ Logging.opened
         \/ logFile # <<>>
         \/ artifacts # <<>> ) => validateResult = "true"
    /\ validateResult \notin {"pending", "true"} =>
         /\ task["setup"] = "failed"
         /\ flowState = "Failed"
         /\ \A t \in LaterTasks : task[t] = "pending" /\ calls[t] = 0
         /\ ~Logging.opened /\ logFile = <<>> /\ artifacts = <<>>

C2_Witness ==
    /\ validateResult = "ValidationError"
    /\ task["setup"] = "failed"
    /\ flowState = "Failed"

\* C3: a run in which all four tasks succeed publishes exactly one artifact,
\* after the logger is closed, whose content is the whole log file: opening
\* block, header 'Workflow validation', success message, the dump of
\* run_request.workflow, closing summary, in that order.
C3_SuccessfulRunArtifact ==
    /\ artifacts # <<>> => Logging.closed
    /\ flowState = "Completed" =>
         /\ Len(artifacts) = 1
         /\ artifacts[1].markdown = logFile
         /\ artifacts[1].description = "The user-log generated by the flow-run."
         /\ logFile = FullLog
         /\ run_request.workflow # 0

C3_Witness ==
    /\ flowState = "Completed"
    /\ run_request.workflow = 1
    /\ Len(artifacts) = 1

\* C4: whenever setup returns, the Configuration holds the request payload,
\* unchanged, under 'run_request'; the payload is injected only after
\* validate() returned true, and setup fails only on loading or validating
\* the documents, whatever the shape of the payload.
C4_SetupInjectsPayload ==
    /\ task["setup"] = "completed" =>
         /\ validateResult = "true"
         /\ Flow.state = "Handler"
         /\ Flow.data = data
         /\ Flow.run_request = run_request
    /\ Flow.run_request # NoRequest => validateResult = "true"
    /\ task["setup"] = "failed" =>
         /\ fault \in {"OSError", "ValidationError"}
         /\ fault = "ValidationError" => Validate(data, dtypes) # "true"

C4_Witness ==
    /\ task["setup"] = "completed"
    /\ run_request.kind = "scalar"
    /\ Validate(data, dtypes) = "true"

\* C5: the tasks run in the order setup, start_logging,
\* validate_configuration, end_logging, at most one at a time, each started
\* only when its predecessor has completed and handed over what it produced;
\* the run state follows created, configured, logging-started, validated,
\* completed.
C5_StrictSequentialOrder ==
    /\ Cardinality({t \in Tasks : task[t] = "running"}) <= 1
    /\ \A i \in 2..4 :
         task[SpecOrder[i]] # "pending" => task[SpecOrder[i - 1]] = "completed"
    /\ task["start_logging"] # "pending" =>
         Flow.state = "Handler" /\ Flow.run_request = run_request
    /\ task["validate-configuration"] # "pending" => Logging.opened
    /\ task["end-logging"] # "pending" => Workflow = run_request.workflow /\ Workflow # 0
    /\ flowState = "Completed" <=> NumCompleted = 4
    /\ flowState = "Running" /\ NumCompleted < 4 =>
         task[SpecOrder[NumCompleted + 1]] \in {"pending", "running"}

C5_Witness ==
    /\ task["end-logging"] = "running"
    /\ RunState = "validated"

\* C6: a fault raised inside validate_configuration escapes the flow: the run
\* is over, end_logging never executes, the logger stays open, no closing
\* summary is written and no artifact is published.
C6_FaultState ==
    task["validate-configuration"] = "failed" =>
        /\ flowState = "Failed"
        /\ fault # "None"
        /\ task["end-logging"] = "pending" /\ calls["end-logging"] = 0
        /\ Logging.opened /\ ~Logging.closed /\ closeCalls = 0
        /\ Summaries(logFile) = {}
        /\ artifacts = <<>>

C6_ValidationFaultEscapes ==
    /\ []C6_FaultState
    /\ [][task["validate-configuration"] # "failed"]_vars

C6_Witness ==
    /\ task["validate-configuration"] = "failed"
    /\ fault = "OSError"
    /\ Len(logFile) = 3

\* C7: each task executes at most once, the run only moves forward, a fault
\* in a task ends the run with the fault surfaced and no later task executed,
\* and every run ends completed or failed.
C7_TaskState ==
    /\ \A t \in Tasks : calls[t] <= 1
    /\ \A i \in 1..4 :
         task[SpecOrder[i]] = "failed" =>
           /\ flowState = "Failed"
           /\ fault # "None"
           /\ \A j \in (i + 1)..4 :
                task[SpecOrder[j]] = "pending" /\ calls[SpecOrder[j]] = 0
    /\ flowState = "Failed" => \E t \in Tasks : task[t] = "failed"

C7_Forward ==
    /\ flowState = "Running"
    /\ NumCompleted' >= NumCompleted
    /\ \A t \in Tasks :
         /\ task[t] \in {"completed", "failed"} => task'[t] = task[t]
         /\ task[t] = "running" => task'[t] # "pending"

C7_NoLocalRecovery ==
    /\ []C7_TaskState
    /\ [][C7_Forward]_vars
    /\ <>Ended

C7_Witness ==
    /\ task["start_logging"] = "failed"
    /\ flowState = "Failed"
    /\ calls["start_logging"] = 1

\* C8: the Configuration is created once, by setup_flow_run, and changed only
\* there; start_logging, validate_configuration and end_logging leave it,
\* the injected run_request and its workflow included, unchanged.
C8_ConfigurationReadOnlyAfterSetup ==
    [][ /\ Flow' # Flow => task["setup"] = "running"
        /\ Flow.state # "unset" => (Flow'.state = Flow.state /\ Flow'.data = Flow.data)
        /\ task["setup"] = "completed" => Flow'.run_request = run_request ]_vars

C8_Witness ==
    /\ flowState = "Completed"
    /\ Flow.run_request = run_request
    /\ Flow.run_request.workflow = MaxWorkflow

NoWorkflowRequest ==
    /\ run_request.kind = "mapping"
    /\ run_request.dir = "ok"
    /\ run_request.runInformation
    /\ run_request.workflow = 0

C10_MissingWorkflowFaultsBeforeWait ==
    NoWorkflowRequest =>
        /\ slept = 0
        /\ logFile \in {<<>>, <<OpenBlock>>}
        /\ ~Logging.closed /\ artifacts = <<>>
        /\ task["validate-configuration"] # "completed"
        /\ task["end-logging"] = "pending"
        /\ task["validate-configuration"] = "running" => step = 1
        /\ task["validate-configuration"] = "failed" =>
             /\ fault = "KeyError"
             /\ flowState = "Failed"
             /\ Logging.opened
             /\ logFile = <<OpenBlock>>
        /\ ( /\ Ended
             /\ task["setup"] = "completed"
             /\ task["start_logging"] = "completed" ) =>
             task["validate-configuration"] = "failed"

C10_Witness ==
    /\ NoWorkflowRequest
    /\ task["validate-configuration"] = "failed"
    /\ Logging.opened

====
